---- MODULE Spec2Model ----
(***************************************************************************)
(* Model of basisopt/molecule.py: the Molecule class (atom list,           *)
(* coordinates, multiplicity, dummy atoms, ecps, serialisation) and the    *)
(* build_diatomic parser.                                                  *)
(*                                                                         *)
(* Conventions                                                             *)
(*  - A Python str is a sequence of one-character strings, so that         *)
(*    split, title, isupper, join and float are computed, not assumed.     *)
(*  - A Python list is a sequence; Python index i is sequence index i+1.   *)
(*  - None is the empty set {} and a present value x is {x} for the        *)
(*    attributes that may hold None (multiplicity, jbasis, jkbasis).       *)
(*  - A float is a fixed-point integer counting multiples of 0.05, which   *)
(*    is exact for every literal with at most one fractional digit and     *)
(*    for its half.                                                        *)
(*  - A dict is a function; a missing key is a key outside its DOMAIN.     *)
(***************************************************************************)
EXTENDS Integers, Sequences, FiniteSets, TLC

VARIABLES mol, op, arg, err, ret

vars == <<mol, op, arg, err, ret>>

(* Largest number of atoms the add_atom action is taken up to. *)
MaxAtoms == 2

\* ------------------------------------------------------------------ strings

(* The cased letters the inputs use, as <<uppercase, lowercase>> pairs. *)
CasedPairs ==
    { <<"H", "h">>, <<"E", "e">>, <<"L", "l">>, <<"I", "i">>, <<"N", "n">>,
      <<"O", "o">>, <<"X", "x">>, <<"C", "c">>, <<"Y", "y">>, <<"Z", "z">> }

(* str.isupper() of a one-character string. *)
isupper(c) == \E p \in CasedPairs : p[1] = c

(* str.islower() of a one-character string. *)
islower(c) == \E p \in CasedPairs : p[2] = c

upper(c) == IF islower(c) THEN (CHOOSE p \in CasedPairs : p[2] = c)[1] ELSE c

lower(c) == IF isupper(c) THEN (CHOOSE p \in CasedPairs : p[1] = c)[2] ELSE c

(* str.title(): a cased character is uppercased when the character before  *)
(* it is uncased (or there is none) and lowercased otherwise.              *)
RECURSIVE TitleFrom(_, _, _)
TitleFrom(s, i, prevCased) ==
    IF i > Len(s) THEN <<>>
    ELSE LET c == s[i]
             cased == isupper(c) \/ islower(c)
             out == IF ~cased THEN c
                    ELSE IF prevCased THEN lower(c) ELSE upper(c)
         IN  <<out>> \o TitleFrom(s, i + 1, cased)

title(s) == TitleFrom(s, 1, FALSE)

(* str.split(sep) for a one-character separator: the list of the parts. *)
RECURSIVE SplitFrom(_, _, _, _)
SplitFrom(s, sep, i, cur) ==
    IF i > Len(s) THEN <<cur>>
    ELSE IF s[i] = sep THEN <<cur>> \o SplitFrom(s, sep, i + 1, <<>>)
    ELSE SplitFrom(s, sep, i + 1, Append(cur, s[i]))

split(s, sep) == SplitFrom(s, sep, 1, <<>>)

(* str.split() with no argument: the maximal runs of non-blank characters. *)
RECURSIVE WordsFrom(_, _, _)
WordsFrom(s, i, cur) ==
    IF i > Len(s) THEN (IF cur = <<>> THEN <<>> ELSE <<cur>>)
    ELSE IF s[i] = " "
         THEN (IF cur = <<>> THEN <<>> ELSE <<cur>>) \o WordsFrom(s, i + 1, <<>>)
         ELSE WordsFrom(s, i + 1, Append(cur, s[i]))

words(s) == WordsFrom(s, 1, <<>>)

Digits == <<"0", "1", "2", "3", "4", "5", "6", "7", "8", "9">>

isdigit(c) == \E k \in DOMAIN Digits : Digits[k] = c

DigitVal(c) == (CHOOSE k \in DOMAIN Digits : Digits[k] = c) - 1

RECURSIVE NatOf(_)
NatOf(s) == IF s = <<>> THEN 0 ELSE 10 * NatOf(SubSeq(s, 1, Len(s) - 1)) + DigitVal(s[Len(s)])

AllDigits(s) == \A k \in DOMAIN s : isdigit(s[k])

Unsigned(s) == IF s # <<>> /\ s[1] \in {"-", "+"} THEN Tail(s) ELSE s

Sign(s) == IF s # <<>> /\ s[1] = "-" THEN -1 ELSE 1

(* int(s): an optional sign and at least one digit, else ValueError. *)
IntOk(s) == Unsigned(s) # <<>> /\ AllDigits(Unsigned(s))

IntOf(s) == Sign(s) * NatOf(Unsigned(s))

(* float(s) for the literals [sign]digits[.digit]: at least one digit, at  *)
(* most one point; anything else is a ValueError.  The value is counted    *)
(* in multiples of 0.05.                                                   *)
FloatOk(s) ==
    LET u == Unsigned(s)
        parts == split(u, ".")
    IN  /\ Len(parts) \in {1, 2}
        /\ \A k \in DOMAIN parts : AllDigits(parts[k])
        /\ \E k \in DOMAIN parts : parts[k] # <<>>
        /\ Len(parts) = 2 => Len(parts[2]) <= 1

FloatOf(s) ==
    LET u == Unsigned(s)
        parts == split(u, ".")
        frac == IF Len(parts) = 2 /\ parts[2] # <<>> THEN DigitVal(parts[2][1]) ELSE 0
    IN  Sign(s) * (20 * NatOf(parts[1]) + 2 * frac)

\* ------------------------------------------------------------------ lists

Range(s) == { s[k] : k \in DOMAIN s }

(* lst[a:b] of Python for a >= 0: a negative b counts from the end, and    *)
(* both ends are clipped to the list.                                      *)
Slice(s, a, b) ==
    LET n == Len(s)
        hi0 == IF b < 0 THEN n + b ELSE b
        hi == IF hi0 < 0 THEN 0 ELSE IF hi0 > n THEN n ELSE hi0
        lo == IF a > n THEN n ELSE a
    IN  IF lo >= hi THEN <<>> ELSE SubSeq(s, lo + 1, hi)

(* The orders list(set(lst)) can come out in: every arrangement of the     *)
(* distinct members.                                                       *)
ListsOfSet(S) ==
    { q \in [1..Cardinality(S) -> S] : \A i, j \in 1..Cardinality(S) : q[i] = q[j] => i = j }

\* ------------------------------------------------------------------ data

None == {}

Some(x) == {x}

TheValue(o) == CHOOSE x \in o : TRUE

(* Python truth value of an optional integer: None and 0 are false. *)
Truthy(o) == o # None /\ TheValue(o) # 0

(* data.GROUNDSTATE_MULTIPLICITIES, for the elements the inputs use. *)
GROUNDSTATE_MULTIPLICITIES ==
    ( <<"H">> :> 2 ) @@ ( <<"H", "e">> :> 1 ) @@ ( <<"L", "i">> :> 2 ) @@
    ( <<"N">> :> 4 ) @@ ( <<"O">> :> 3 ) @@ ( <<"C", "l">> :> 2 )

Resolvable(element) == element \in DOMAIN GROUNDSTATE_MULTIPLICITIES

\* ------------------------------------------------------------------ Molecule

(* Molecule.__init__ *)
Molecule(name, charge, mult) ==
    [ name |-> name, charge |-> charge, multiplicity |-> mult, method |-> <<>>,
      basis |-> <<>>, ecps |-> <<>>, jbasis |-> None, jkbasis |-> None,
      _atom_names |-> <<>>, dummy_atoms |-> <<>>, _coords |-> <<>>,
      _results |-> <<>>, _references |-> <<>>,
      coords |-> None ]

natoms(m) == Len(m._atom_names)

(* The value of self.multiplicity after lines 74-77. *)
MultiplicityAfterAdd(m, element) ==
    IF Truthy(m.multiplicity) THEN m.multiplicity
    ELSE Some(GROUNDSTATE_MULTIPLICITIES[element])

(* The lookup run on every call. *)
AddAtomAlwaysLooksUp(m, element) == ~Resolvable(element)

(* Whether lines 74-77 raise: the lookup runs only on a false multiplicity. *)
AddAtomRaises(m, element) == ~Truthy(m.multiplicity) /\ ~Resolvable(element)

(* Molecule.add_atom: the outcome [err, mol]. *)
add_atom(m, element, coord, dummy) ==
    IF AddAtomRaises(m, element) THEN [err |-> "AttributeError", mol |-> m]
    ELSE LET names == Append(m._atom_names, element)
         IN  [ err |-> "none",
               mol |-> [ m EXCEPT
                   !.multiplicity = MultiplicityAfterAdd(m, element),
                   !._coords = Append(m._coords, coord),
                   !._atom_names = names,
                   !.dummy_atoms = IF dummy THEN Append(m.dummy_atoms, Len(names) - 1)
                                   ELSE m.dummy_atoms ] ]

(* set_ecps comparing the key as given with the atom names. *)
set_ecps_untitled(m, ecp_dict) ==
    [ m EXCEPT !.ecps =
        [ k \in { k \in DOMAIN ecp_dict : k \in Range(m._atom_names) } |-> ecp_dict[k] ] ]

(* Molecule.set_ecps: the entries whose title-cased key is an atom name,   *)
(* under the key as given.                                                 *)
set_ecps(m, ecp_dict) ==
    [ m EXCEPT !.ecps =
        [ k \in { k \in DOMAIN ecp_dict : title(k) \in Range(m._atom_names) } |-> ecp_dict[k] ] ]

(* Lines 203-207: the list before the final list(set(...)). *)
DummyListBeforeDedup(m, indices, overwrite) ==
    LET valid_atoms == SelectSeq(indices, LAMBDA ix : ix \in 0..(natoms(m) - 1))
    IN  IF overwrite THEN valid_atoms ELSE m.dummy_atoms \o valid_atoms

(* Molecule.set_dummy_atoms: the molecules it can leave, one per order     *)
(* list(set(...)) may produce.                                             *)
set_dummy_atoms(m, indices, overwrite) ==
    { [ m EXCEPT !.dummy_atoms = q ] :
        q \in ListsOfSet(Range(DummyListBeforeDedup(m, indices, overwrite))) }

(* Molecule.add_result *)
add_result(m, name, value) ==
    [ m EXCEPT !._results = (name :> value) @@ m._results ]

(* Molecule.add_reference *)
add_reference(m, name, value) ==
    [ m EXCEPT !._references = (name :> value) @@ m._references ]

(* Lines 172-173: the clamped index. *)
ClampIndex(m, i) ==
    LET ix == IF i > 0 THEN i ELSE 0
    IN  IF ix < Len(m._atom_names) - 1 THEN ix ELSE Len(m._atom_names) - 1

(* lst[ix] raises IndexError outside -len..len-1. *)
IndexOk(lst, ix) == -Len(lst) <= ix /\ ix < Len(lst)

Item(lst, ix) == IF ix < 0 THEN lst[Len(lst) + ix + 1] ELSE lst[ix + 1]

(* Molecule.get_line: the outcome [err, ret]; the line is its              *)
(* tab-separated fields.                                                   *)
get_line(m, i, atom_prefix, atom_suffix) ==
    LET ix == ClampIndex(m, i)
    IN  IF ~IndexOk(m._atom_names, ix) \/ ~IndexOk(m._coords, ix)
        THEN [err |-> "IndexError", ret |-> None]
        ELSE LET n == Item(m._atom_names, ix)
                 c == Item(m._coords, ix)
             IN  IF Len(c) < 3 THEN [err |-> "IndexError", ret |-> None]
                 ELSE [ err |-> "none",
                        ret |-> Some([ atom |-> atom_prefix \o n \o atom_suffix,
                                       x |-> c[1], y |-> c[2], z |-> c[3] ]) ]

\* ------------------------------------------------------------------ records

(* Shell.as_dict / Shell.from_dict of the basis container. *)
ShellAsDict(s) == [ class |-> "Shell", l |-> s.l ]

ShellFromDict(d) == [ l |-> d.l ]

(* containers.basis_to_dict *)
basis_to_dict(basis) ==
    [ k \in DOMAIN basis |-> [ i \in DOMAIN basis[k] |-> ShellAsDict(basis[k][i]) ] ]

(* containers.dict_to_basis *)
dict_to_basis(d) ==
    [ k \in DOMAIN d |-> [ i \in DOMAIN d[k] |-> ShellFromDict(d[k][i]) ] ]

(* util.dict_decode: the records here hold no nested serialised object. *)
dict_decode(d) == d

(* Python truth value of an optional dict: None and {} are false. *)
TruthyDict(o) == o # None /\ DOMAIN TheValue(o) # {}

(* Molecule.as_dict; the keys "@module" and "@class" are written module    *)
(* and class.                                                              *)
as_dict(m) ==
    LET d == [ module |-> "basisopt.molecule", class |-> "Molecule",
               name |-> m.name, charge |-> m.charge,
               multiplicity |-> m.multiplicity, method |-> m.method,
               basis |-> basis_to_dict(m.basis), ecps |-> m.ecps,
               atom_names |-> m._atom_names, dummy_atoms |-> m.dummy_atoms,
               coords |-> m._coords, results |-> m._results,
               references |-> m._references ]
        j == IF TruthyDict(m.jbasis)
             THEN [ jbasis |-> basis_to_dict(TheValue(m.jbasis)) ] ELSE <<>>
        jk == IF TruthyDict(m.jkbasis)
              THEN [ jkbasis |-> basis_to_dict(TheValue(m.jkbasis)) ] ELSE <<>>
    IN  d @@ j @@ jk

(* d.get(key, default) *)
Get(d, key, default) == IF key \in DOMAIN d THEN d[key] ELSE default

(* d.get(key, None) for an attribute that holds a dict or None. *)
GetOrNone(d, key) == IF key \in DOMAIN d THEN Some(d[key]) ELSE None

Untitled == <<"U", "n", "t", "i", "t", "l", "e", "d">>

(* Molecule.from_dict.  Line 302 assigns the attribute coords; _coords     *)
(* keeps the constructor's empty list.                                     *)
from_dict(d0) ==
    LET d == dict_decode(d0)
        instance == Molecule(Get(d, "name", Untitled), Get(d, "charge", 0),
                             Get(d, "multiplicity", Some(1)))
    IN  [ instance EXCEPT
            !.method = Get(d, "method", <<>>),
            !.basis = dict_to_basis(Get(d, "basis", <<>>)),
            !.ecps = Get(d, "ecps", <<>>),
            !.jbasis = GetOrNone(d, "jbasis"),
            !.jkbasis = GetOrNone(d, "jkbasis"),
            !._atom_names = Get(d, "atom_names", <<>>),
            !.dummy_atoms = Get(d, "dummy_atoms", <<>>),
            !.coords = Some(Get(d, "coords", <<>>)),
            !._results = Get(d, "results", <<>>),
            !._references = Get(d, "references", <<>>) ]

\* ------------------------------------------------------------------ from_xyz

(* Lines 138-141 for one line of the file: the outcome [err, mol]. *)
ReadAtomLine(m, line) ==
    LET ws == words(line)
    IN  IF ws = <<>> THEN [err |-> "IndexError", mol |-> m]
        ELSE LET element == ws[1]
                 nums == Slice(ws, 1, 4)
             IN  IF \E k \in DOMAIN nums : ~FloatOk(nums[k])
                 THEN [err |-> "ValueError", mol |-> m]
                 ELSE add_atom(m, element, [k \in DOMAIN nums |-> FloatOf(nums[k])], FALSE)

(* The loop of lines 137-141: the first failing line ends it. *)
RECURSIVE ReadAtomLines(_, _)
ReadAtomLines(m, lines) ==
    IF lines = <<>> THEN [err |-> "none", mol |-> m]
    ELSE LET r == ReadAtomLine(m, Head(lines))
         IN  IF r.err # "none" THEN r ELSE ReadAtomLines(r.mol, Tail(lines))

(* Molecule.from_xyz on a file that is missing (None) or holds the given   *)
(* lines: [mol, caught], caught naming the exception the try block         *)
(* swallowed.  Nothing is raised to the caller.                            *)
from_xyz(file, name, charge, mult) ==
    LET instance == Molecule(name, charge, mult)
    IN  IF file = None THEN [mol |-> instance, caught |-> "IOError"]
        ELSE LET lines == TheValue(file)
             IN  IF lines = <<>> THEN [mol |-> instance, caught |-> "IndexError"]
                 ELSE IF ~IntOk(lines[1]) THEN [mol |-> instance, caught |-> "ValueError"]
                 ELSE LET nat == IntOf(lines[1])
                          r == ReadAtomLines(instance, Slice(lines, 2, 2 + nat))
                      IN  [mol |-> r.mol, caught |-> r.err]

\* ------------------------------------------------------------------ build_diatomic

Suffix_Diatomic == <<"_", "D", "i", "a", "t", "o", "m", "i", "c">>

(* Lines 331-356: <<atom1, atom2>>, each None when no branch assigns it. *)
DiatomicAtoms(chars) ==
    LET nchars == Len(chars)
        none == <<None, None>>
    IN  IF ~isupper(chars[1]) THEN none
        ELSE IF nchars = 2
             THEN IF chars[2] = "2" THEN <<Some(<<chars[1]>>), Some(<<chars[1]>>)>>
                  ELSE IF isupper(chars[2]) THEN <<Some(<<chars[1]>>), Some(<<chars[2]>>)>>
                  ELSE none
        ELSE IF nchars = 3
             THEN IF chars[3] = "2"
                  THEN <<Some(SubSeq(chars, 1, 2)), Some(SubSeq(chars, 1, 2))>>
                  ELSE IF isupper(chars[2])
                  THEN <<Some(<<chars[1]>>), Some(SubSeq(chars, 2, 3))>>
                  ELSE IF islower(chars[2])
                  THEN <<Some(SubSeq(chars, 1, 2)), Some(<<chars[3]>>)>>
                  ELSE none
        ELSE IF nchars = 4 /\ isupper(chars[3])
             THEN <<Some(SubSeq(chars, 1, 2)), Some(SubSeq(chars, 3, 4))>>
        ELSE none

(* build_diatomic: the outcome [err, mol]; mol is the returned Molecule    *)
(* when err is "none".                                                     *)
build_diatomic(mol_str, charge, mult) ==
    LET molecule == Molecule(mol_str \o Suffix_Diatomic, charge, mult)
        parts == split(mol_str, ",")
        chars == parts[1]
        fail(e) == [err |-> e, mol |-> None]
    IN  IF Len(parts) < 2 THEN fail("IndexError")
        ELSE IF ~FloatOk(parts[2]) THEN fail("ValueError")
        ELSE IF chars = <<>> THEN fail("IndexError")
        ELSE LET rval == FloatOf(parts[2])
                 atoms == DiatomicAtoms(chars)
             IN  IF atoms[1] = None \/ atoms[2] = None THEN fail("InvalidDiatomic")
                 ELSE LET r1 == add_atom(molecule, TheValue(atoms[1]),
                                         <<0, 0, -(rval \div 2)>>, FALSE)
                      IN  IF r1.err # "none" THEN fail(r1.err)
                          ELSE LET r2 == add_atom(r1.mol, TheValue(atoms[2]),
                                                  <<0, 0, rval \div 2>>, FALSE)
                               IN  IF r2.err # "none" THEN fail(r2.err)
                                   ELSE [err |-> "none", mol |-> Some(r2.mol)]

\* ------------------------------------------------------------------ inputs

H == <<"H">>
He == <<"H", "e">>
Xx == <<"X", "x">>

(* Constructor arguments <<name, charge, mult>>: the defaults, and an       *)
(* explicit multiplicity of 0, 1 and 3.                                    *)
CtorArgs ==
    { <<Untitled, 0, None>>, <<Untitled, 0, Some(0)>>,
      <<<<"m">>, 1, Some(1)>>, <<<<"m">>, -1, Some(3)>> }

(* add_atom arguments <<element, coord, dummy>>; Xx is no element. *)
AtomArgs ==
    { <<H, <<0, 0, 0>>, FALSE>>, <<He, <<0, 0, 20>>, TRUE>>,
      <<He, <<0, 0, 0>>, FALSE>>, <<Xx, <<0, 0, 20>>, FALSE>> }

IndexLists == { <<0>>, <<1, 1>>, <<-1, 2>>, <<1, 0, 7>> }

EcpDicts ==
    { (He :> "ecp1") @@ (Xx :> "ecp2"),
      (<<"h", "e">> :> "ecp1"),
      (<<"H", "E">> :> "ecp3") @@ (H :> "ecp1") }

(* get_line arguments <<i, atom_prefix, atom_suffix>>. *)
LineArgs ==
    { <<i, <<"@">>, <<":">>>> : i \in -1..MaxAtoms } \cup { <<0, <<>>, <<>>>> }

ResultValues == { 5 }

(* A hand-written record of one atom whose dummy indices repeat and        *)
(* exceed the atom list; the other fields are left out.                    *)
PartialRecord ==
    [ atom_names |-> <<He>>, coords |-> << <<0, 0, 0>> >>, dummy_atoms |-> <<0, 0, 1>> ]

(* A record naming a method and basis sets. *)
BasisRecord ==
    [ name |-> <<"m">>, method |-> <<"h", "f">>,
      basis |-> (H :> << [class |-> "Shell", l |-> "s"] >>),
      jbasis |-> (H :> << [class |-> "Shell", l |-> "p"] >>),
      atom_names |-> <<H>>, coords |-> << <<0, 0, 0>> >> ]

(* Diatomic specification strings: one per row of the parsing table,      *)
(* formulas no row matches, and strings without a usable separation.       *)
Str_NO == <<"N", "O", ",", "1", ".", "3">>
Str_N2 == <<"N", "2", ",", "1", ".", "1">>
Str_LiH == <<"L", "i", "H", ",", "1", ".", "2">>

DiatomicStrings ==
    { Str_NO, Str_N2, Str_LiH,
      <<"H", "e", "2", ",", "3">>,
      <<"H", "L", "i", ",", "1", ".", "6">>,
      <<"L", "i", "C", "l", ",", "2">>,
      <<"H", "X", "x", ",", "1">>,
      <<"X", "x", "H", ",", "1">>,
      <<"x", "y", "z", ",", "1", ".", "0">>,
      <<",", "1", ".", "0">>,
      <<"H", ",", "1", ".", "0">>,
      <<"L", "i", "C", "l", "H", ",", "1">>,
      <<"N", "o", ",", "1">>,
      <<"L", "i", "c", "l", ",", "1">>,
      <<"N", "O">>,
      <<>>,
      <<"N", "O", ",", "x">> }

(* mult of build_diatomic and from_xyz: an integer. *)
IntMults == { Some(0), Some(1), Some(3) }

(* xyz files, each None (no such file) or the list of its lines without    *)
(* the line ends, which int() and split() discard.                         *)
Line_H == <<"H", " ", "0", " ", "0", " ", "0">>
Line_He == <<"H", "e", " ", "0", " ", "0", " ", "1", ".", "5">>
Line_Xx == <<"X", "x", " ", "0", " ", "0", " ", "2">>
TitleLine == <<"t">>

XyzFiles ==
    { None,
      Some(<<>>),
      Some(<< <<"x">>, TitleLine, Line_H >>),
      Some(<< <<"2">>, TitleLine, Line_H, Line_He >>),
      Some(<< <<"1">>, TitleLine, Line_H \o <<" ", "9">>, Line_He >>),
      Some(<< <<"3">>, TitleLine, Line_He >>),
      Some(<< <<"2">>, TitleLine, <<"H", " ", "0", " ", "0">>, Line_He >>),
      Some(<< <<"3">>, TitleLine, Line_H, <<"H", "e", " ", "0", " ", "x", " ", "1">>, Line_H >>),
      Some(<< <<"2">>, TitleLine, <<>>, Line_H >>),
      Some(<< <<"2">>, TitleLine, Line_Xx, Line_H >>),
      Some(<< <<"-", "3">>, TitleLine, Line_H, Line_He >>),
      Some(<< <<"0">>, TitleLine, Line_H >>) }

\* ------------------------------------------------------------------ actions

Init ==
    /\ mol = Molecule(Untitled, 0, None)
    /\ op = "__init__"
    /\ arg = [name |-> Untitled, charge |-> 0, mult |-> None]
    /\ err = "none"
    /\ ret = None

New(name, charge, mult) ==
    /\ mol' = Molecule(name, charge, mult)
    /\ op' = "__init__"
    /\ arg' = [name |-> name, charge |-> charge, mult |-> mult]
    /\ err' = "none"
    /\ ret' = None

(* add_atom, taken while the molecule has fewer than MaxAtoms atoms. *)
AddAtom(element, coord, dummy) ==
    /\ natoms(mol) < MaxAtoms
    /\ LET r == add_atom(mol, element, coord, dummy)
       IN  /\ mol' = r.mol
           /\ err' = r.err
    /\ op' = "add_atom"
    /\ arg' = [element |-> element, coord |-> coord, dummy |-> dummy]
    /\ ret' = None

SetEcps(ecp_dict) ==
    /\ mol' = set_ecps(mol, ecp_dict)
    /\ op' = "set_ecps"
    /\ arg' = [ecp_dict |-> ecp_dict]
    /\ err' = "none"
    /\ ret' = None

SetDummyAtoms(indices, overwrite) ==
    /\ mol' \in set_dummy_atoms(mol, indices, overwrite)
    /\ op' = "set_dummy_atoms"
    /\ arg' = [indices |-> indices, overwrite |-> overwrite]
    /\ err' = "none"
    /\ ret' = None

AddResult(name, value) ==
    /\ mol' = add_result(mol, name, value)
    /\ op' = "add_result"
    /\ arg' = [name |-> name, value |-> value]
    /\ err' = "none"
    /\ ret' = None

AddReference(name, value) ==
    /\ mol' = add_reference(mol, name, value)
    /\ op' = "add_reference"
    /\ arg' = [name |-> name, value |-> value]
    /\ err' = "none"
    /\ ret' = None

GetLine(i, atom_prefix, atom_suffix) ==
    /\ LET r == get_line(mol, i, atom_prefix, atom_suffix)
       IN  /\ err' = r.err
           /\ ret' = r.ret
    /\ op' = "get_line"
    /\ arg' = [i |-> i, atom_prefix |-> atom_prefix, atom_suffix |-> atom_suffix]
    /\ UNCHANGED mol

FromDict(d) ==
    /\ mol' = from_dict(d)
    /\ op' = "from_dict"
    /\ arg' = [d |-> d]
    /\ err' = "none"
    /\ ret' = None

(* build_diatomic: on success the returned Molecule becomes the molecule   *)
(* at hand; on an error none is returned and the one at hand stays.        *)
BuildDiatomic(mol_str, charge, mult) ==
    /\ LET r == build_diatomic(mol_str, charge, mult)
       IN  /\ err' = r.err
           /\ ret' = r.mol
           /\ mol' = IF r.err = "none" THEN TheValue(r.mol) ELSE mol
    /\ op' = "build_diatomic"
    /\ arg' = [mol_str |-> mol_str, charge |-> charge, mult |-> mult]

(* from_xyz: ret names the exception the try block swallowed. *)
FromXyz(file, name, charge, mult) ==
    /\ LET r == from_xyz(file, name, charge, mult)
       IN  /\ mol' = r.mol
           /\ ret' = Some(r.caught)
    /\ err' = "none"
    /\ op' = "from_xyz"
    /\ arg' = [file |-> file, name |-> name, charge |-> charge, mult |-> mult]

(* The Molecule and its setters, the line query and the record round trip. *)
Next ==
    \/ \E a \in CtorArgs : New(a[1], a[2], a[3])
    \/ \E a \in AtomArgs : AddAtom(a[1], a[2], a[3])
    \/ \E indices \in IndexLists, overwrite \in BOOLEAN : SetDummyAtoms(indices, overwrite)
    \/ \E a \in LineArgs : GetLine(a[1], a[2], a[3])
    \/ \E d \in { as_dict(mol), PartialRecord } : FromDict(d)

Spec == Init /\ [][Next]_vars

(* The ecps mapping. *)
NextEcps ==
    \/ \E a \in CtorArgs : New(a[1], a[2], a[3])
    \/ \E a \in AtomArgs : AddAtom(a[1], a[2], a[3])
    \/ \E ecp_dict \in EcpDicts : SetEcps(ecp_dict)
    \/ FromDict(as_dict(mol))

SpecEcps == Init /\ [][NextEcps]_vars

(* Results, references and basis sets through the record round trip. *)
NextRecord ==
    \/ \E a \in CtorArgs : New(a[1], a[2], a[3])
    \/ \E a \in AtomArgs : AddAtom(a[1], a[2], a[3])
    \/ \E value \in ResultValues : AddResult(<<"e">>, value)
    \/ \E value \in ResultValues : AddReference(<<"e">>, value)
    \/ \E d \in { as_dict(mol), BasisRecord } : FromDict(d)

SpecRecord == Init /\ [][NextRecord]_vars

(* build_diatomic on every specification string. *)
NextDiatomic ==
    \E mol_str \in DiatomicStrings, charge \in {0, 1}, mult \in IntMults :
        BuildDiatomic(mol_str, charge, mult)

SpecDiatomic == Init /\ [][NextDiatomic]_vars

(* from_xyz on every file. *)
NextXyz ==
    \E file \in XyzFiles, name \in {Untitled, <<"m">>}, charge \in {0, 1}, mult \in IntMults :
        FromXyz(file, name, charge, mult)

SpecXyz == Init /\ [][NextXyz]_vars

\* ------------------------------------------------------------------ claims

InRange(indices, n) == { indices[k] : k \in { j \in DOMAIN indices : indices[j] \in 0..(n - 1) } }

NoRepeats(lst) == \A i, j \in DOMAIN lst : lst[i] = lst[j] => i = j

(* C1: in every reachable state _atom_names and _coords have the same      *)
(* length, and a successful add_atom leaves its element and its           *)
(* coordinate last in both, at the same index.                             *)
C1_CoIndexed ==
    /\ Len(mol._atom_names) = Len(mol._coords)
    /\ (op = "add_atom" /\ err = "none") =>
          /\ mol._atom_names[Len(mol._atom_names)] = arg.element
          /\ mol._coords[Len(mol._atom_names)] = arg.coord

(* C2: from_dict(as_dict(m)) has m's name, charge, multiplicity, method,   *)
(* atom list, _coords, dummy atoms, results, references and basis.         *)
C2_RoundTrip ==
    [][ (op' = "from_dict" /\ arg'.d = as_dict(mol)) =>
          /\ mol'.name = mol.name
          /\ mol'.charge = mol.charge
          /\ mol'.multiplicity = mol.multiplicity
          /\ mol'.method = mol.method
          /\ mol'._atom_names = mol._atom_names
          /\ mol'._coords = mol._coords
          /\ mol'.dummy_atoms = mol.dummy_atoms
          /\ mol'._results = mol._results
          /\ mol'._references = mol._references
          /\ mol'.basis = mol.basis ]_vars

(* C3: a multiplicity that has a value (any integer, 0 included) is not    *)
(* changed by an add_atom call.                                            *)
C3_MultiplicityKept ==
    [][ (op' = "add_atom" /\ mol.multiplicity # None) =>
          mol'.multiplicity = mol.multiplicity ]_vars

(* C4: every entry of dummy_atoms is an index of an atom and occurs once;  *)
(* after set_dummy_atoms the dummy atoms are the in-range indices given    *)
(* (overwrite) or those together with the earlier ones (no overwrite).     *)
C4_DummyAtoms ==
    [][ /\ \A k \in DOMAIN mol'.dummy_atoms : mol'.dummy_atoms[k] \in 0..(natoms(mol') - 1)
        /\ NoRepeats(mol'.dummy_atoms)
        /\ op' = "set_dummy_atoms" =>
              Range(mol'.dummy_atoms) =
                  IF arg'.overwrite THEN InRange(arg'.indices, natoms(mol))
                  ELSE Range(mol.dummy_atoms) \cup InRange(arg'.indices, natoms(mol)) ]_vars

(* C5 as stated: after set_ecps every entry of ecps is an entry of the     *)
(* mapping given, and every key of ecps is an element symbol of the atom   *)
(* list.                                                                   *)
C5_KeysAreAtoms ==
    op = "set_ecps" =>
        /\ \A k \in DOMAIN mol.ecps : k \in DOMAIN arg.ecp_dict /\ mol.ecps[k] = arg.ecp_dict[k]
        /\ \A k \in DOMAIN mol.ecps : k \in Range(mol._atom_names)

(* C5 as amended: after set_ecps every entry of ecps is an entry of the    *)
(* mapping given, under the key as given; a key of the mapping is kept     *)
(* exactly when its title-cased form is an element symbol of the atom      *)
(* list.                                                                   *)
C5_TitledKeysAreAtoms ==
    op = "set_ecps" =>
        /\ \A k \in DOMAIN mol.ecps : k \in DOMAIN arg.ecp_dict /\ mol.ecps[k] = arg.ecp_dict[k]
        /\ \A k \in DOMAIN arg.ecp_dict :
              k \in DOMAIN mol.ecps <=> title(k) \in Range(mol._atom_names)

(* set_ecps({'He': 'ecp1', 'Xx': 'ecp2'}) on a molecule with He, no Xx and *)
(* an earlier ecps entry left {'He': 'ecp1'}.                              *)
C5_Witness ==
    /\ op = "set_ecps"
    /\ arg.ecp_dict = (He :> "ecp1") @@ (Xx :> "ecp2")
    /\ He \in Range(mol._atom_names)
    /\ mol.ecps = (He :> "ecp1")

\* The parsing table of build_diatomic as the specification gives it.

FormulaOf(mol_str) == split(mol_str, ",")[1]

HasSeparationPart(mol_str) == Len(split(mol_str, ",")) >= 2

HasNumericSeparation(mol_str) ==
    HasSeparationPart(mol_str) /\ FloatOk(split(mol_str, ",")[2])

SeparationOf(mol_str) == FloatOf(split(mol_str, ",")[2])

(* <<atom1, atom2>> of the first table row the formula matches, <<>> when  *)
(* it matches none.                                                        *)
TableRow(f) ==
    IF f = <<>> \/ ~isupper(f[1]) THEN <<>>
    ELSE IF Len(f) = 2 /\ f[2] = "2" THEN << <<f[1]>>, <<f[1]>> >>
    ELSE IF Len(f) = 2 /\ isupper(f[2]) THEN << <<f[1]>>, <<f[2]>> >>
    ELSE IF Len(f) = 3 /\ f[3] = "2" THEN << <<f[1], f[2]>>, <<f[1], f[2]>> >>
    ELSE IF Len(f) = 3 /\ isupper(f[2]) THEN << <<f[1]>>, <<f[2], f[3]>> >>
    ELSE IF Len(f) = 3 /\ islower(f[2]) THEN << <<f[1], f[2]>>, <<f[3]>> >>
    ELSE IF Len(f) = 4 /\ isupper(f[3]) THEN << <<f[1], f[2]>>, <<f[3], f[4]>> >>
    ELSE <<>>

(* C6: build_diatomic on a string with a numeric separation whose formula  *)
(* matches no table row fails with InvalidDiatomic; on a string with no    *)
(* separation part it fails with IndexError; neither returns a Molecule.   *)
C6_FailureKinds ==
    op = "build_diatomic" =>
        /\ (HasNumericSeparation(arg.mol_str) /\ TableRow(FormulaOf(arg.mol_str)) = <<>>) =>
              err = "InvalidDiatomic" /\ ret = None
        /\ ~HasSeparationPart(arg.mol_str) => err = "IndexError" /\ ret = None

(* C7: build_diatomic on a string with a numeric separation whose formula  *)
(* matches a table row returns a Molecule named <spec>_Diatomic with the   *)
(* given charge and multiplicity and the row's two atoms at                *)
(* (0,0,-separation/2) and (0,0,+separation/2).                            *)
C7_Diatomic ==
    (/\ op = "build_diatomic"
     /\ HasNumericSeparation(arg.mol_str)
     /\ TableRow(FormulaOf(arg.mol_str)) # <<>>) =>
        /\ err = "none"
        /\ ret = Some(mol)
        /\ mol.name = arg.mol_str \o Suffix_Diatomic
        /\ mol.charge = arg.charge
        /\ mol.multiplicity = arg.mult
        /\ mol._atom_names = TableRow(FormulaOf(arg.mol_str))
        /\ mol._coords = << <<0, 0, -(SeparationOf(arg.mol_str) \div 2)>>,
                            <<0, 0, SeparationOf(arg.mol_str) \div 2>> >>

WellFormedAtomLine(line) ==
    /\ Len(words(line)) >= 4
    /\ \A k \in 2..4 : FloatOk(words(line)[k])

AtomOfLine(line) ==
    [ element |-> words(line)[1],
      coord |-> << FloatOf(words(line)[2]), FloatOf(words(line)[3]), FloatOf(words(line)[4]) >> ]

RECURSIVE WellFormedPrefix(_)
WellFormedPrefix(lines) ==
    IF lines = <<>> \/ ~WellFormedAtomLine(Head(lines)) THEN <<>>
    ELSE <<AtomOfLine(Head(lines))>> \o WellFormedPrefix(Tail(lines))

DeclaresCount(file) ==
    file # None /\ TheValue(file) # <<>> /\ IntOk(TheValue(file)[1])

DeclaredCount(file) == IntOf(TheValue(file)[1])

(* The atom lines of the file: lines 3 to 2 + count, as far as present. *)
AtomLines(file) ==
    LET lines == TheValue(file)
        last == IF 2 + DeclaredCount(file) < Len(lines) THEN 2 + DeclaredCount(file)
                ELSE Len(lines)
    IN  IF last < 3 THEN <<>> ELSE SubSeq(lines, 3, last)

ExpectedAtoms(file) ==
    IF DeclaresCount(file) THEN WellFormedPrefix(AtomLines(file)) ELSE <<>>

(* C9: from_xyz raises nothing and returns a Molecule with the given name, *)
(* charge and multiplicity whose atoms are the well-formed atom lines      *)
(* before the first failure, in file order, and no more than the declared  *)
(* count.                                                                  *)
C9_FromXyz ==
    op = "from_xyz" =>
        /\ err = "none"
        /\ mol.name = arg.name
        /\ mol.charge = arg.charge
        /\ mol.multiplicity = arg.mult
        /\ mol._atom_names = [ k \in DOMAIN ExpectedAtoms(arg.file) |->
                                 ExpectedAtoms(arg.file)[k].element ]
        /\ mol._coords = [ k \in DOMAIN ExpectedAtoms(arg.file) |->
                             ExpectedAtoms(arg.file)[k].coord ]
        /\ DeclaresCount(arg.file) => natoms(mol) <= DeclaredCount(arg.file)

(* C10: get_line never fails; it returns the line of the atom at the index *)
(* clamped into 0..natoms()-1, with the prefix and suffix around the       *)
(* element.                                                                *)
C10_GetLineClamps ==
    op = "get_line" =>
        LET hi == IF arg.i < natoms(mol) - 1 THEN arg.i ELSE natoms(mol) - 1
            ix == IF hi < 0 THEN 0 ELSE hi
        IN  /\ err = "none"
            /\ ret = Some([ atom |-> arg.atom_prefix \o mol._atom_names[ix + 1] \o arg.atom_suffix,
                            x |-> mol._coords[ix + 1][1],
                            y |-> mol._coords[ix + 1][2],
                            z |-> mol._coords[ix + 1][3] ])

====
